---- MODULE Spec2Model ----
(***************************************************************************)
(* A model of libsmi.py, the OpenSesame driver of the SMI Red eye tracker. *)
(*                                                                         *)
(* The session object (its streaming flag, its sound option), the serial   *)
(* input buffer and the position of the one running method are the state.  *)
(* Every public method is an action; a method that blocks in recv() is cut *)
(* at its reads: one action for the reads that take the bytes waiting in   *)
(* the buffer, one for a read that times out, one for a read that returns  *)
(* None, and one per frame handed back to sample() or calibrate().         *)
(* Incoming bytes are one character strings, a line is a sequence of them; *)
(* outgoing commands are strings.  trace records, for the call in progress *)
(* (or the last one), what the method did to its collaborators, in order;  *)
(* raw, waited, tick and defined keep what the reads of the current recv   *)
(* and the calibrations before this one did.                               *)
(***************************************************************************)
EXTENDS Integers, Sequences, FiniteSets, TLC

VARIABLES
    streaming,      \* self.streaming
    sound,          \* self.sound
    devStreaming,   \* the tracker pushes samples: ET_STR written, no ET_EST since
    rx,             \* bytes the tracker has sent that no read has taken yet
    emitted,        \* number of lines the tracker has sent so far
    pc,             \* "idle", or where the running method stands
    op,             \* the running method, or the last one when pc = "idle"
    arg,            \* the argument op was called with
    entry,          \* self.streaming when op was called
    s,              \* recv: the characters accumulated for the current line
    c,              \* recv: what the last read returned
    ret,            \* what the last recv returned to its caller
    raw,            \* the bytes the current recv call has read, in order
    waited,         \* a read of the current recv call timed out in mid-line
    tick,           \* the half seconds recv has waited since its last byte: odd
    x,              \* sample: local x
    y,              \* sample: local y
    pts,            \* calibrate: local pts
    defined,        \* the indices the calibrate calls that have ended had in pts
    result,         \* what the last finished method returned
    err,            \* the exception the last finished method raised
    trace           \* the calls op has made to its collaborators, in order

vars == <<streaming, sound, devStreaming, rx, emitted, pc, op, arg, entry, s, c,
          ret, raw, waited, tick, x, y, pts, defined, result, err, trace>>

----------------------------------------------------------------------------
(* Bounds *)

\* lines the tracker sends in one behaviour
MaxFrames == 3

----------------------------------------------------------------------------
(* Python values *)

TAB == "\t"
LF == "\n"
\* Python's None; four characters, so never a byte
NoneValue == "None"
\* serial.Serial.read returns the empty string when its timeout expires
Timeout == ""
\* c before the first read
Unbound == "unbound"
\* x and y of sample: a name that has no value yet, a name bound to v
Unset == <<>>
Bound(v) == <<v>>
\* what a method hands back: None, a string, the tuple x, y
NoResult == <<NoneValue>>
Str(v) == <<"str", v>>
Pair(a, b) == <<"tuple", a, b>>
\* an argument as the caller writes it
Repr(b) == IF b THEN "True" ELSE "False"
\* no exception
NoError == [type |-> "none"]

DigitChars == <<"0", "1", "2", "3", "4", "5", "6", "7", "8", "9">>

Digits == {DigitChars[i] : i \in 1..10}

DigitValue(d) == (CHOOSE i \in 1..10 : DigitChars[i] = d) - 1

\* str.split() with no argument splits on runs of these
IsSpace(ch) == ch \in {" ", TAB, LF, "\r"}

RECURSIVE SplitFrom(_, _, _)
SplitFrom(str, cur, out) ==
    IF str = <<>>
    THEN IF cur = <<>> THEN out ELSE Append(out, cur)
    ELSE IF IsSpace(Head(str))
         THEN SplitFrom(Tail(str), <<>>, IF cur = <<>> THEN out ELSE Append(out, cur))
         ELSE SplitFrom(Tail(str), Append(cur, Head(str)), out)

\* s.split(): the whitespace-separated tokens of s, none empty
Split(str) == SplitFrom(str, <<>>, <<>>)

\* the literals int() accepts: an optional sign, then one digit or more
IsIntLiteral(tok) ==
    LET body == IF tok # <<>> /\ Head(tok) \in {"+", "-"} THEN Tail(tok) ELSE tok
    IN  /\ body # <<>>
        /\ \A i \in 1..Len(body) : body[i] \in Digits

RECURSIVE DecimalValue(_)
DecimalValue(ds) ==
    IF ds = <<>> THEN 0
    ELSE 10 * DecimalValue(SubSeq(ds, 1, Len(ds) - 1)) + DigitValue(ds[Len(ds)])

IntValue(tok) ==
    IF Head(tok) = "-" THEN 0 - DecimalValue(Tail(tok))
    ELSE IF Head(tok) = "+" THEN DecimalValue(Tail(tok))
    ELSE DecimalValue(tok)

\* int(l[k]) for a list l and a Python (0-based) index k: the value or the exception
IntAt(l, k) ==
    IF k >= Len(l) THEN [ok |-> FALSE, exc |-> "IndexError"]
    ELSE IF ~IsIntLiteral(l[k + 1]) THEN [ok |-> FALSE, exc |-> "ValueError"]
    ELSE [ok |-> TRUE, val |-> IntValue(l[k + 1])]

RECURSIVE FormatD(_)
\* '%d' % n
FormatD(n) ==
    IF n < 0 THEN "-" \o FormatD(0 - n)
    ELSE IF n < 10 THEN DigitChars[n + 1]
    ELSE FormatD(n \div 10) \o DigitChars[(n % 10) + 1]

\* s[:-1]
DropLast(str) == SubSeq(str, 1, Len(str) - 1)

----------------------------------------------------------------------------
(* The protocol's tags and the lines the tracker may send *)

ET_SPL == <<"E", "T", "_", "S", "P", "L">>
ET_PNT == <<"E", "T", "_", "P", "N", "T">>
ET_CHG == <<"E", "T", "_", "C", "H", "G">>
ET_FIN == <<"E", "T", "_", "F", "I", "N">>

RECURSIVE Join(_)
\* the tokens separated by one space
Join(toks) ==
    IF toks = <<>> THEN <<>>
    ELSE IF Len(toks) = 1 THEN toks[1]
    ELSE toks[1] \o <<" ">> \o Join(Tail(toks))

\* the tracker ends a message with tab, line-feed
Line(toks) == Join(toks) \o <<TAB, LF>>

\* a monocular sample, a binocular one, one whose y is no integer, one of
\* four tokens
SampleLines ==
    { Line(<<ET_SPL, <<"1", "0">>, <<"2", "0">>>>),
      Line(<<ET_SPL, <<"3">>, <<"5">>, <<"4">>, <<"x">>>>),
      Line(<<ET_SPL, <<"7">>, <<"x">>>>),
      Line(<<ET_SPL, <<"1">>, <<"2">>, <<"6">>>>) }

\* point 3 defined, point 3 defined again, the change to point 3, the change
\* to point 1, the end of the calibration
CalibrationLines ==
    { Line(<<ET_PNT, <<"3">>, <<"1", "0">>, <<"2", "0">>>>),
      Line(<<ET_PNT, <<"3">>, <<"4">>, <<"5">>>>),
      Line(<<ET_CHG, <<"3">>>>),
      Line(<<ET_CHG, <<"1">>>>),
      Line(<<ET_FIN>>) }

\* a bare line-feed, a one character line, a line with no tab before its
\* line-feed
StrayLines ==
    { <<LF>>, <<"a", LF>>, <<"a", "b", LF>> }

\* two lines at once: the second one waits in the buffer when recv returns
\* the first
Bursts ==
    { Line(<<ET_SPL, <<"1", "0">>, <<"2", "0">>>>) \o Line(<<ET_FIN>>) }

\* a frame of white space only
EmptyLines ==
    { <<" ", TAB, LF>> }

\* the start of a line whose end comes later, and such an end
Fragments ==
    { ET_SPL \o <<" ", "9">>,
      <<" ", "8", TAB, LF>> }

\* a sample and a point-change that stop after the tag
BrokenLines ==
    { Line(<<ET_SPL>>), Line(<<ET_CHG>>) }

DeviceLines ==
    SampleLines \cup CalibrationLines \cup StrayLines \cup Bursts \cup EmptyLines
        \cup Fragments \cup BrokenLines

\* what the tracker may send while the method name waits in recv: samples
\* while sample waits, the messages of the calibration while calibrate
\* waits, each with stray line-feeds, lines in pieces and a line that is
\* not for the method; anything short, and one whole line, while recv itself
\* was called
LinesWhile(name) ==
    IF name = "sample"
    THEN SampleLines \cup Bursts \cup Fragments
            \cup {<<LF>>, <<"a", "b", LF>>, Line(<<ET_SPL>>)}
    ELSE IF name = "calibrate"
    THEN CalibrationLines \cup EmptyLines \cup Fragments
            \cup {<<LF>>, Line(<<ET_CHG>>)}
    ELSE StrayLines \cup Fragments \cup {Line(<<ET_FIN>>)}

\* experiment.get('width'), experiment.get('height')
Width == 1024
Height == 768

\* nr_of_pts of calibrate; 9 is the default
PointCounts == {9}

----------------------------------------------------------------------------
(* Events of trace *)

Written(msg) == <<"write", msg>>
Frame(f) == <<"recv", f>>
Poll == <<"get_key">>
Flush == <<"flushInput">>
CanvasClear == <<"canvas.clear">>
Fixdot(px, py) == <<"canvas.fixdot", px, py>>
CanvasShow == <<"canvas.show">>
Beep1 == <<"beep1.play">>
Beep2 == <<"beep2.play">>

\* send(msg): what it writes
SendEvents(msg) == <<Written(msg \o "\t\n")>>

\* the tracker's push mode after it has read the command msg
DeviceAfter(dev, msg) ==
    IF msg = "ET_STR" THEN TRUE
    ELSE IF msg = "ET_EST" THEN FALSE
    ELSE dev

RECURSIVE DeviceAfterAll(_, _)
DeviceAfterAll(dev, msgs) ==
    IF msgs = <<>> THEN dev
    ELSE DeviceAfterAll(DeviceAfter(dev, Head(msgs)), Tail(msgs))

RECURSIVE SendAll(_)
\* send(msgs[1]); send(msgs[2]); ...
SendAll(msgs) ==
    IF msgs = <<>> THEN <<>> ELSE SendEvents(Head(msgs)) \o SendAll(Tail(msgs))

\* stop_recording with its two sends in the other order
StopCommands_StopFirst(flag) ==
    IF flag THEN <<"ET_STP", "ET_EST">> ELSE <<"ET_STP">>

\* the commands stop_recording sends when self.streaming is flag
StopCommands(flag) ==
    IF flag THEN <<"ET_EST", "ET_STP">> ELSE <<"ET_STP">>

\* start_recording that starts the stream before it sets its format
StartCommands_StreamFirst(stream) ==
    IF stream THEN <<"ET_REC", "ET_STR", "ET_FRM \"%SX %SY\"">> ELSE <<"ET_REC">>

\* the commands start_recording(stream) sends
StartCommands(stream) ==
    IF stream THEN <<"ET_REC", "ET_FRM \"%SX %SY\"", "ET_STR">> ELSE <<"ET_REC">>

\* the commands calibrate sends before its loop
SetupCommands(nr) ==
    << "ET_CPA 0 1", "ET_CPA 1 1", "ET_CPA 2 1", "ET_LEV 2",
       "ET_CSZ " \o FormatD(Width) \o " " \o FormatD(Height),
       "ET_DEF", "ET_CAL " \o FormatD(nr) >>

----------------------------------------------------------------------------
(* Exceptions *)

NotStreamingError ==
    [type |-> "runtime_error",
     msg |-> "Please set stream=True in start_recording() before using sample()"]

CalibrationError ==
    [type |-> "runtime_error",
     msg |-> "Something went wrong during the calibration. Please try again."]

\* 'The tracker said "%s"' % s
TrackerSaidError(str) ==
    [type |-> "runtime_error", msg |-> "The tracker said", arg |-> str]

\* int() or an index failed outside a try
PythonError(exc) == [type |-> exc]

\* the keyboard's answer to the escape key
EscapeError == [type |-> "response_error"]

----------------------------------------------------------------------------
(* Initial state: the session as __init__ leaves it *)

Init ==
    /\ sound \in BOOLEAN
    /\ streaming = FALSE
    /\ devStreaming = FALSE
    /\ rx = <<>>
    /\ emitted = 0
    /\ pc = "idle"
    /\ op = "__init__"
    /\ arg = NoneValue
    /\ entry = FALSE
    /\ s = <<>>
    /\ c = Unbound
    /\ ret = <<>>
    /\ raw = <<>>
    /\ waited = FALSE
    /\ tick = FALSE
    /\ x = Unset
    /\ y = Unset
    /\ pts = <<>>
    /\ defined = {}
    /\ result = NoResult
    /\ err = NoError
    /\ trace = SendAll(StopCommands(FALSE))

\* pts kept on the session instead of made anew
FreshTable_Kept(old) == old

\* pts = {}: the table of a call is a new, empty one, whatever the last was
FreshTable(old) == <<>>

\* a method returns or raises: its locals are gone
Finish(res, e) ==
    /\ pc' = "idle"
    /\ result' = res
    /\ err' = e
    /\ s' = <<>>
    /\ c' = Unbound
    /\ x' = Unset
    /\ y' = Unset
    /\ defined' = defined \cup DOMAIN pts
    /\ pts' = FreshTable(pts)

\* a method is called: the record of the last call is dropped
Call(name, a) ==
    /\ pc = "idle"
    /\ op' = name
    /\ arg' = a
    /\ entry' = streaming
    /\ ret' = <<>>
    /\ raw' = <<>>
    /\ waited' = FALSE
    /\ tick' = FALSE

\* the method has neither returned nor raised yet
Pending ==
    /\ result' = NoResult
    /\ err' = NoError
    /\ defined' = defined

\* recv is entered
EnterRecv ==
    /\ pc' = "recv"
    /\ s' = <<>>
    /\ c' = Unbound
    /\ raw' = <<>>
    /\ waited' = FALSE
    /\ tick' = FALSE

----------------------------------------------------------------------------
(* The tracker *)

\* the tracker's next line, or lines, come in while a read waits
DeviceEmit(line) ==
    /\ pc = "recv"
    /\ rx = <<>>
    /\ emitted < MaxFrames
    /\ line \in LinesWhile(op)
    /\ rx' = line
    /\ emitted' = emitted + 1
    /\ UNCHANGED <<streaming, sound, devStreaming, pc, op, arg, entry, s, c, ret,
                   raw, waited, tick,
                   x, y, pts, result, err, defined, trace>>

----------------------------------------------------------------------------
(* recv *)

\* the length test of recv off by one
LineComplete_NotEmpty(str) == Len(str) > 0

\* a line-feed ends the line when more than one character was accumulated
LineComplete(str) == Len(str) > 1

\* the empty string of a timeout kept as if it were a character
Accumulate_Always(str, b) == Append(str, b)

\* s += c
Accumulate(str, b) == IF b = Timeout THEN str ELSE Append(str, b)

RECURSIVE Loop(_, _, _)
\* the iterations of recv's loop over the bytes that wait in the buffer, from
\* the accumulated str and the last byte last: the loop is left at the
\* line-feed of a complete line, or it comes to a read that has to wait
Loop(str, last, bytes) ==
    IF bytes = <<>> THEN [s |-> str, c |-> last, rest |-> bytes, left |-> FALSE]
    ELSE IF Head(bytes) = LF
    THEN IF LineComplete(str)
         THEN [s |-> str, c |-> LF, rest |-> Tail(bytes), left |-> TRUE]
         ELSE Loop(<<>>, LF, Tail(bytes))
    ELSE Loop(Accumulate(str, Head(bytes)), Head(bytes), Tail(bytes))

\* recv reads the bytes that wait in the buffer
RecvRead ==
    /\ pc = "recv"
    /\ rx # <<>>
    /\ LET r == Loop(s, c, rx)
       IN  /\ s' = r.s
           /\ c' = r.c
           /\ rx' = r.rest
           /\ raw' = raw \o SubSeq(rx, 1, Len(rx) - Len(r.rest))
           /\ pc' = (IF r.left THEN "recv_ret" ELSE pc)
           /\ ret' = (IF r.left THEN DropLast(r.s) ELSE ret)
    /\ tick' = FALSE
    /\ UNCHANGED <<streaming, sound, devStreaming, emitted, op, arg, entry, waited,
                   x, y, pts, result, err, defined, trace>>

\* a read of recv finds no byte and returns the empty string when its
\* timeout has passed
RecvTimeout ==
    /\ pc = "recv"
    /\ rx = <<>>
    /\ c' = Timeout
    /\ s' = Accumulate(s, Timeout)
    /\ waited' = (waited \/ s # <<>>)
    /\ tick' = ~tick
    /\ UNCHANGED <<streaming, sound, devStreaming, rx, emitted, pc, op, arg, entry, ret,
                   raw, x, y, pts, result, err, defined, trace>>

\* None taken for the end of the line: recv returns what it has
RecvNone_ReturnsPartial ==
    /\ pc = "recv"
    /\ rx = <<>>
    /\ raw' = Append(raw, NoneValue)
    /\ pc' = "recv_ret"
    /\ ret' = DropLast(s)
    /\ UNCHANGED <<streaming, sound, devStreaming, rx, emitted, op, arg, entry, s, c,
                   waited, tick, x, y, pts, result, err, defined, trace>>

\* a read of recv finds no byte and returns None
RecvNone ==
    /\ pc = "recv"
    /\ rx = <<>>
    /\ raw' = Append(raw, NoneValue)
    /\ Finish(NoResult, TrackerSaidError(s))
    /\ UNCHANGED <<streaming, sound, devStreaming, rx, emitted, op, arg, entry, ret,
                   waited, tick, trace>>

\* recv() called on the session
Recv ==
    /\ Call("recv", NoneValue)
    /\ EnterRecv
    /\ Pending
    /\ trace' = <<>>
    /\ UNCHANGED <<streaming, sound, devStreaming, rx, emitted, x, y, pts>>

\* recv returns to the caller of the session
RecvReturn ==
    /\ pc = "recv_ret"
    /\ op = "recv"
    /\ Finish(Str(ret), NoError)
    /\ trace' = Append(trace, Frame(ret))
    /\ UNCHANGED <<streaming, sound, devStreaming, rx, emitted, op, arg, entry, ret,
                   raw, waited, tick>>

----------------------------------------------------------------------------
(* start_recording, stop_recording, clear, send, log, save_data *)

StartRecording(stream) ==
    /\ Call("start_recording", Repr(stream))
    /\ trace' = SendAll(StartCommands(stream))
    /\ devStreaming' = DeviceAfterAll(devStreaming, StartCommands(stream))
    /\ streaming' = stream
    /\ Finish(NoResult, NoError)
    /\ UNCHANGED <<sound, rx, emitted>>

StopRecording ==
    /\ Call("stop_recording", NoneValue)
    /\ trace' = SendAll(StopCommands(streaming))
    /\ devStreaming' = DeviceAfterAll(devStreaming, StopCommands(streaming))
    /\ streaming' = FALSE
    /\ Finish(NoResult, NoError)
    /\ UNCHANGED <<sound, rx, emitted>>

\* clear that also takes the session out of streaming
Clear_ResetsFlag ==
    /\ Call("clear", NoneValue)
    /\ trace' = <<Flush>>
    /\ rx' = <<>>
    /\ streaming' = FALSE
    /\ Finish(NoResult, NoError)
    /\ UNCHANGED <<sound, devStreaming, emitted>>

Clear ==
    /\ Call("clear", NoneValue)
    /\ trace' = <<Flush>>
    /\ rx' = <<>>
    /\ Finish(NoResult, NoError)
    /\ UNCHANGED <<streaming, sound, devStreaming, emitted>>

\* the messages the caller of the session sends and logs
Messages == {"ET_CLR", "trial 1"}

\* the paths save_data is called with: None, or a name
Paths == {NoneValue, "subject.idf"}

\* the name save_data makes up from the log file and the time
DefaultPath == "logfile_11_01_2026_12_00.idf"

\* send(msg) called on the session
Send(msg) ==
    /\ Call("send", msg)
    /\ trace' = SendEvents(msg)
    /\ devStreaming' = DeviceAfter(devStreaming, msg)
    /\ Finish(NoResult, NoError)
    /\ UNCHANGED <<streaming, sound, rx, emitted>>

\* the command log(msg) sends
LogCommand(msg) == "ET_REM \"" \o msg \o "\""

Log(msg) ==
    /\ Call("log", msg)
    /\ trace' = SendEvents(LogCommand(msg))
    /\ devStreaming' = DeviceAfter(devStreaming, LogCommand(msg))
    /\ Finish(NoResult, NoError)
    /\ UNCHANGED <<streaming, sound, rx, emitted>>

\* the command save_data(path) sends
SaveCommand(path) ==
    "ET_SAV \"" \o (IF path = NoneValue THEN DefaultPath ELSE path) \o "\""

SaveData(path) ==
    /\ Call("save_data", path)
    /\ trace' = SendEvents(SaveCommand(path))
    /\ devStreaming' = DeviceAfter(devStreaming, SaveCommand(path))
    /\ Finish(NoResult, NoError)
    /\ UNCHANGED <<streaming, sound, rx, emitted>>

----------------------------------------------------------------------------
(* sample *)

\* sample without its guard
SampleAllowed_Always(flag) == TRUE

\* sample goes on to read only when the session streams
SampleAllowed(flag) == flag

\* what sample does before its loop: nothing, or the flush
BeforeLoop(clear) == IF clear THEN <<Flush>> ELSE <<>>

\* sample(clear) is called
Sample(clear) ==
    /\ Call("sample", Repr(clear))
    /\ IF ~SampleAllowed(streaming)
       THEN /\ Finish(NoResult, NotStreamingError)
            /\ trace' = <<>>
            /\ UNCHANGED rx
       ELSE /\ trace' = BeforeLoop(clear)
            /\ rx' = (IF Flush \in {BeforeLoop(clear)[i] : i \in 1..Len(BeforeLoop(clear))}
                      THEN <<>> ELSE rx)
            /\ EnterRecv
            /\ Pending
            /\ UNCHANGED <<x, y, pts>>
    /\ UNCHANGED <<streaming, sound, devStreaming, emitted>>

\* every frame read as a monocular one
YIndex_Monocular(l) == 2

\* the Python index of the token sample reads y from
YIndex(l) == IF Len(l) = 5 THEN 3 ELSE 2

\* sample that keeps the x it has and takes only what it still lacks
Decode_KeepsX(str, oldx, oldy) ==
    LET l == Split(str)
    IN  IF Len(l) > 0 /\ l[1] = ET_SPL
        THEN LET gx == IF oldx # Unset THEN [ok |-> TRUE, val |-> oldx[1]]
                       ELSE IntAt(l, 1)
                 gy == IntAt(l, YIndex(l))
             IN  IF ~gx.ok THEN [x |-> oldx, y |-> oldy, done |-> FALSE]
                 ELSE IF ~gy.ok THEN [x |-> Bound(gx.val), y |-> oldy, done |-> FALSE]
                 ELSE [x |-> Bound(gx.val), y |-> Bound(gy.val), done |-> TRUE]
        ELSE [x |-> oldx, y |-> oldy, done |-> FALSE]

\* the body of sample's loop after recv returned str: the new x and y, and
\* whether the loop is left
Decode(str, oldx, oldy) ==
    LET l == Split(str)
    IN  IF Len(l) > 0 /\ l[1] = ET_SPL
        THEN LET gx == IntAt(l, 1)
                 gy == IntAt(l, YIndex(l))
             IN  IF ~gx.ok THEN [x |-> oldx, y |-> oldy, done |-> FALSE]
                 ELSE IF ~gy.ok THEN [x |-> Bound(gx.val), y |-> oldy, done |-> FALSE]
                 ELSE [x |-> Bound(gx.val), y |-> Bound(gy.val), done |-> TRUE]
        ELSE [x |-> oldx, y |-> oldy, done |-> FALSE]

\* recv returns to sample
SampleFrame ==
    /\ pc = "recv_ret"
    /\ op = "sample"
    /\ trace' = Append(trace, Frame(ret))
    /\ LET d == Decode(ret, x, y)
       IN  IF d.done
           THEN /\ Finish(Pair(d.x[1], d.y[1]), NoError)
                /\ UNCHANGED <<raw, waited, tick>>
           ELSE /\ x' = d.x
                /\ y' = d.y
                /\ EnterRecv
                /\ UNCHANGED <<pts, result, err, defined>>
    /\ UNCHANGED <<streaming, sound, devStreaming, rx, emitted, op, arg, entry, ret>>

----------------------------------------------------------------------------
(* calibrate *)

\* calibrate(nr_of_pts) is called: the commands before the loop
Calibrate(nr) ==
    /\ Call("calibrate", FormatD(nr))
    /\ Pending
    /\ trace' = SendAll(SetupCommands(nr))
    /\ devStreaming' = DeviceAfterAll(devStreaming, SetupCommands(nr))
    /\ pts' = FreshTable(pts)
    /\ pc' = "cal_poll"
    /\ UNCHANGED <<streaming, sound, rx, emitted, s, c, x, y>>

\* the loop of calibrate without its poll
PollEvents_None == <<>>

\* my_keyboard.get_key(timeout=0), once, at the top of the loop
PollEvents == <<Poll>>

\* the top of the loop: the keyboard is polled, then recv is entered
CalibratePoll ==
    /\ pc = "cal_poll"
    /\ trace' = trace \o PollEvents
    /\ \E escape \in BOOLEAN :
        IF escape
        THEN /\ Finish(NoResult, EscapeError)
             /\ UNCHANGED <<raw, waited, tick>>
        ELSE /\ EnterRecv
             /\ UNCHANGED <<x, y, pts, result, err, defined>>
    /\ UNCHANGED <<streaming, sound, devStreaming, rx, emitted, op, arg, entry, ret>>

\* how an iteration of calibrate's loop ends
Raise(e, table) == [end |-> "raise", exc |-> e, pts |-> table, events |-> <<>>]
Continue(table, ev) == [end |-> "continue", exc |-> NoError, pts |-> table, events |-> ev]
Break(table) == [end |-> "break", exc |-> NoError, pts |-> table, events |-> <<>>]

\* pt_nr-1 not in pts
Undefined(table, idx) == idx \notin DOMAIN table

\* pts that keeps the first definition of a point
Store_KeepFirst(table, idx, px, py) ==
    [i \in DOMAIN table \cup {idx} |->
        IF i \in DOMAIN table THEN table[i] ELSE <<px, py>>]

\* pts[idx] = px, py
Store(table, idx, px, py) ==
    [i \in DOMAIN table \cup {idx} |-> IF i = idx THEN <<px, py>> ELSE table[i]]

\* a beep plays only when the session has sound
BeepEvents(beep) == IF sound THEN <<beep>> ELSE <<>>

\* the fixation dot of a point: clear, fixdot, show, and the beep
ShowPoint(pt) == <<CanvasClear, Fixdot(pt[1], pt[2]), CanvasShow>> \o BeepEvents(Beep1)

\* the ET_PNT branch
DefinePoint(cmd, table) ==
    LET n == IntAt(cmd, 1)
        px == IntAt(cmd, 2)
        py == IntAt(cmd, 3)
    IN  IF ~n.ok THEN Raise(PythonError(n.exc), table)
        ELSE IF ~px.ok THEN Raise(PythonError(px.exc), table)
        ELSE IF ~py.ok THEN Raise(PythonError(py.exc), table)
        ELSE Continue(Store(table, n.val - 1, px.val, py.val), <<>>)

\* the ET_CHG branch with a silent default for a point that is not defined
ChangePoint_Silent(cmd, table) ==
    LET n == IntAt(cmd, 1)
    IN  IF ~n.ok THEN Raise(PythonError(n.exc), table)
        ELSE IF Undefined(table, n.val - 1) THEN Continue(table, <<>>)
        ELSE Continue(table, ShowPoint(table[n.val - 1]))

\* the ET_CHG branch
ChangePoint(cmd, table) ==
    LET n == IntAt(cmd, 1)
    IN  IF ~n.ok THEN Raise(PythonError(n.exc), table)
        ELSE IF Undefined(table, n.val - 1) THEN Raise(CalibrationError, table)
        ELSE Continue(table, ShowPoint(table[n.val - 1]))

\* the body of calibrate's loop after recv returned str:
\* what happens to pts, to the display, and how the iteration ends
Dispatch(str, table) ==
    LET cmd == Split(str)
    IN  IF Len(cmd) = 0 THEN Continue(table, <<>>)
        ELSE IF cmd[1] = ET_PNT THEN DefinePoint(cmd, table)
        ELSE IF cmd[1] = ET_CHG THEN ChangePoint(cmd, table)
        ELSE IF cmd[1] = ET_FIN THEN Break(table)
        ELSE Continue(table, <<>>)

\* the end of calibrate with a beep that does not look at self.sound
AfterLoop_AlwaysBeep(flag) == SendAll(StopCommands(flag)) \o <<Beep2>>

\* what calibrate does after its loop: stop_recording, then the beep
AfterLoop(flag) == SendAll(StopCommands(flag)) \o BeepEvents(Beep2)

\* recv returns to calibrate
CalibrateFrame ==
    /\ pc = "recv_ret"
    /\ op = "calibrate"
    /\ LET d == Dispatch(ret, pts)
       IN  CASE d.end = "continue" ->
                /\ trace' = Append(trace, Frame(ret)) \o d.events
                /\ pts' = d.pts
                /\ pc' = "cal_poll"
                /\ UNCHANGED <<streaming, devStreaming, s, c, x, y, result, err, defined>>
             [] d.end = "raise" ->
                /\ trace' = Append(trace, Frame(ret))
                /\ Finish(NoResult, d.exc)
                /\ UNCHANGED <<streaming, devStreaming>>
             [] d.end = "break" ->
                /\ trace' = Append(trace, Frame(ret)) \o AfterLoop(streaming)
                /\ devStreaming' = DeviceAfterAll(devStreaming, StopCommands(streaming))
                /\ streaming' = FALSE
                /\ Finish(NoResult, NoError)
    /\ UNCHANGED <<sound, rx, emitted, op, arg, entry, ret, raw, waited, tick>>

----------------------------------------------------------------------------

Next ==
    \/ \E line \in DeviceLines : DeviceEmit(line)
    \/ \E stream \in BOOLEAN : StartRecording(stream)
    \/ StopRecording
    \/ Clear
    \/ \E msg \in Messages : Send(msg)
    \/ \E msg \in Messages : Log(msg)
    \/ \E path \in Paths : SaveData(path)
    \/ \E clear \in BOOLEAN : Sample(clear)
    \/ SampleFrame
    \/ \E nr \in PointCounts : Calibrate(nr)
    \/ CalibratePoll
    \/ CalibrateFrame
    \/ Recv
    \/ RecvRead
    \/ RecvTimeout
    \/ RecvNone
    \/ RecvReturn

Spec == Init /\ [][Next]_vars

\* the running method goes on: one thread runs it, and a read that finds no
\* byte returns when the timeout of the port, half a second, has passed.
\* Nothing makes the tracker send, the port return None or the caller call.
Progress ==
    /\ WF_vars(RecvRead)
    /\ WF_vars(RecvTimeout)
    /\ WF_vars(RecvReturn)
    /\ WF_vars(SampleFrame)
    /\ WF_vars(CalibratePoll)
    /\ WF_vars(CalibrateFrame)

FairSpec == Spec /\ Progress

----------------------------------------------------------------------------
(* Reading trace and raw *)

IsRecv(e) == e[1] = "recv"

IsDisplay(e) == e[1] \in {"canvas.clear", "canvas.fixdot", "canvas.show"}

IsBeep2(e) == e[1] = "beep2.play"

\* the tokens of the frame of each event of trace; none where the event is
\* no frame
FrameTokens ==
    [i \in 1..Len(trace) |-> IF IsRecv(trace[i]) THEN Split(trace[i][2]) ELSE <<>>]

\* the first token of the token list l is tag
HasTag(l, tag) == l # <<>> /\ l[1] = tag

\* the indices of the events of trace that satisfy P
Where(P(_)) == {i \in 1..Len(trace) : P(trace[i])}

\* what stop_recording has to write when the flag was flag
StopWrites(flag) ==
    IF flag THEN <<Written("ET_EST\t\n"), Written("ET_STP\t\n")>>
    ELSE <<Written("ET_STP\t\n")>>

RECURSIVE LinesFrom(_, _, _)
LinesFrom(bytes, cur, out) ==
    IF bytes = <<>> THEN out
    ELSE IF Head(bytes) = LF THEN LinesFrom(Tail(bytes), <<>>, Append(out, cur))
    ELSE LinesFrom(Tail(bytes), Append(cur, Head(bytes)), out)

\* the lines of a byte sequence: what stands before each line-feed
Lines(bytes) == LinesFrom(bytes, <<>>, <<>>)

----------------------------------------------------------------------------
(* C1: stop_recording called while the streaming flag is true writes the   *)
(* end-streaming command ET_EST and then the stop command ET_STP, each     *)
(* once and nothing else; called while the flag is false it writes ET_STP  *)
(* only; the flag is false afterwards.                                     *)
C1_StopOrder ==
    (pc = "idle" /\ op \in {"stop_recording", "__init__"}) =>
        /\ trace = StopWrites(entry)
        /\ streaming = FALSE

C1_Witness ==
    /\ pc = "idle"
    /\ op = "stop_recording"
    /\ entry = TRUE
    /\ Len(trace) = 2

(* C2: a call of sample while the streaming flag is false ends at once     *)
(* with the not-streaming error: nothing is read, nothing is flushed, the  *)
(* channel and the flag are as they were.                                  *)
C2_SampleNeedsStreaming ==
    [][ (pc = "idle" /\ op' = "sample" /\ ~streaming) =>
            /\ pc' = "idle"
            /\ err' = NotStreamingError
            /\ rx' = rx
            /\ streaming' = streaming
            /\ trace' = <<>>
            /\ raw' = <<>> ]_vars

C2_Witness ==
    /\ pc = "idle"
    /\ op = "sample"
    /\ err = NotStreamingError
    /\ rx # <<>>

\* the token list is a point-change with an integer point number
IsChange(l) == HasTag(l, ET_CHG) /\ Len(l) >= 2 /\ IsIntLiteral(l[2])

\* the token list defines the point number n
IsDefinition(l, n) ==
    HasTag(l, ET_PNT) /\ Len(l) >= 4 /\ IsIntLiteral(l[2]) /\ IntValue(l[2]) = n

\* the point of the change tk[i] was defined by a frame before it
DefinedBefore(tk, i) ==
    \E j \in 1..(i - 1) : IsDefinition(tk[j], IntValue(tk[i][2]))

\* the coordinates the last definition before i gave the point of the change tk[i]
LatestDefinition(tk, i) ==
    LET n == IntValue(tk[i][2])
        j == CHOOSE k \in 1..(i - 1) :
                /\ IsDefinition(tk[k], n)
                /\ \A m \in (k + 1)..(i - 1) : ~IsDefinition(tk[m], n)
    IN  <<IntValue(tk[j][3]), IntValue(tk[j][4])>>

(* C3: in a calibrate call, a point-change frame whose point no earlier    *)
(* frame of the call has defined ends the call with the protocol-order     *)
(* error, and nothing is done after the frame: no display call, no beep.   *)
C3_UndefinedChangeFails ==
    op = "calibrate" =>
        LET tk == FrameTokens
        IN  \A i \in 1..Len(trace) :
                (IsChange(tk[i]) /\ ~DefinedBefore(tk, i)) =>
                    /\ i = Len(trace)
                    /\ pc = "idle"
                    /\ err = CalibrationError

C3_Witness ==
    /\ op = "calibrate"
    /\ err = CalibrationError
    /\ IsChange(FrameTokens[Len(trace)])
    /\ \E j \in 1..Len(trace) : IsDefinition(FrameTokens[j], 3)

(* C4: in a calibrate call, every point-change frame whose point has been  *)
(* defined is followed by one clear, one fixdot at the coordinates of the  *)
(* last definition of that point before it, and one show; the display is   *)
(* not called otherwise.                                                   *)
C4_ChangeShowsLatest ==
    op = "calibrate" =>
        LET tk == FrameTokens
            shown == {i \in 1..Len(trace) : IsChange(tk[i]) /\ DefinedBefore(tk, i)}
        IN  /\ \A i \in shown :
                /\ i + 3 <= Len(trace)
                /\ trace[i + 1] = CanvasClear
                /\ trace[i + 2][1] = "canvas.fixdot"
                /\ <<trace[i + 2][2], trace[i + 2][3]>> = LatestDefinition(tk, i)
                /\ trace[i + 3] = CanvasShow
            /\ Cardinality(Where(IsDisplay)) = 3 * Cardinality(shown)

C4_Witness ==
    /\ op = "calibrate"
    /\ Len(trace) >= 4
    /\ IsChange(FrameTokens[Len(trace) - 3])
    /\ Cardinality({j \in 1..Len(trace) : IsDefinition(FrameTokens[j], 3)}) = 2
    /\ trace[Len(trace) - 1] = Fixdot(4, 5)

(* C5: when calibrate receives the completion frame it returns without an  *)
(* error: after the frame come the writes of one stop_recording, then the  *)
(* success beep if and only if sound is on, and nothing else; no frame is  *)
(* received after it, the success beep is played at no other time, and the *)
(* streaming flag is false.                                                *)
C5_FinishCompletes ==
    op = "calibrate" =>
        LET tk == FrameTokens
            fin == {i \in 1..Len(trace) : HasTag(tk[i], ET_FIN)}
        IN  /\ \A i \in fin :
                /\ pc = "idle"
                /\ err = NoError
                /\ streaming = FALSE
                /\ SubSeq(trace, i + 1, Len(trace))
                     = StopWrites(entry) \o (IF sound THEN <<Beep2>> ELSE <<>>)
            /\ Where(IsBeep2) # {} => fin # {}

C5_Witness ==
    /\ op = "calibrate"
    /\ pc = "idle"
    /\ err = NoError
    /\ sound
    /\ entry
    /\ Cardinality(Where(IsRecv)) = 1
    /\ trace[Len(trace)] = Beep2

(* C6: recv never returns a result built from a line of fewer than two     *)
(* characters: when it returns, every line it read before the last one was *)
(* shorter than two characters, the last one is not, and the accumulated   *)
(* characters are those of the last line alone, so that the result holds   *)
(* nothing of the lines before it.                                         *)
C6_ShortLinesDiscarded ==
    pc = "recv_ret" =>
        LET ls == Lines(raw)
            n == Len(ls)
        IN  /\ n >= 1
            /\ raw[Len(raw)] = LF
            /\ \A k \in 1..(n - 1) : Len(ls[k]) < 2
            /\ Len(ls[n]) >= 2
            /\ s = ls[n]
            /\ ret = SubSeq(ls[n], 1, Len(ret))

C6_Witness ==
    /\ pc = "recv_ret"
    /\ Len(Lines(raw)) = 3
    /\ Len(ret) > 1

(* C7: recv returns the line with its final tab stripped and nothing else  *)
(* removed: the line it read last is the result followed by one tab.       *)
C7_OnlyTabStripped ==
    pc = "recv_ret" =>
        LET ls == Lines(raw)
        IN  ls[Len(ls)] = ret \o <<TAB>>

\* the tokens sample takes the coordinates of the first eye from
FirstEye(l) == IF Len(l) = 5 THEN <<l[2], l[4]>> ELSE <<l[2], l[3]>>

\* a sample frame of n tokens whose first-eye coordinates are integers
IsSampleOf(l, n) ==
    /\ HasTag(l, ET_SPL)
    /\ Len(l) = n
    /\ IsIntLiteral(FirstEye(l)[1])
    /\ IsIntLiteral(FirstEye(l)[2])

\* the method has returned, with no error, at the event i of trace
ReturnedAt(i) == pc = "idle" /\ err = NoError /\ i = Len(trace)

(* C8: sample returns at a sample frame of five tokens ET_SPL x1 x2 y1 y2  *)
(* with the pair (x1, y1), whatever x2 and y2 are, and at a sample frame   *)
(* of three tokens ET_SPL x y with the pair (x, y).                        *)
C8_FirstEyeDecoded ==
    op = "sample" =>
        LET tk == FrameTokens
        IN  \A i \in 1..Len(trace) :
                /\ IsSampleOf(tk[i], 5) =>
                    /\ ReturnedAt(i)
                    /\ result = Pair(IntValue(tk[i][2]), IntValue(tk[i][4]))
                /\ IsSampleOf(tk[i], 3) =>
                    /\ ReturnedAt(i)
                    /\ result = Pair(IntValue(tk[i][2]), IntValue(tk[i][3]))

\* sample has returned at a binocular frame whose second y is no integer
C8_Witness ==
    /\ op = "sample"
    /\ ReturnedAt(Len(trace))
    /\ Len(trace) >= 1
    /\ IsSampleOf(FrameTokens[Len(trace)], 5)
    /\ ~IsIntLiteral(FrameTokens[Len(trace)][5])

\* a sample frame with a first-eye coordinate missing or no integer
IsMalformedSample(l) ==
    /\ HasTag(l, ET_SPL)
    /\ \/ Len(l) < 3
       \/ ~IsIntLiteral(FirstEye(l)[1])
       \/ ~IsIntLiteral(FirstEye(l)[2])

\* a well-formed sample frame: the tag and two or four coordinates, those of
\* the first eye integers
IsWellFormedSample(l) == IsSampleOf(l, 3) \/ IsSampleOf(l, 5)

(* C9: while streaming, a sample frame whose coordinates are missing or no *)
(* integers never makes sample raise and is skipped: sample does not       *)
(* return at it, it ends only by returning or with the error of recv, and  *)
(* when it returns it does so at the first well-formed sample frame that   *)
(* came after that frame, with the pair of that frame.                     *)
C9_MalformedSkipped ==
    (op = "sample" /\ entry) =>
        LET tk == FrameTokens
            good == {i \in 1..Len(trace) : IsWellFormedSample(tk[i])}
        IN  \A m \in 1..Len(trace) :
                IsMalformedSample(tk[m]) =>
                    /\ ~ReturnedAt(m)
                    /\ err.type \in {"none", "runtime_error"}
                    /\ err.type = "runtime_error" => err.msg = "The tracker said"
                    /\ \A i \in 1..Len(trace) :
                        ReturnedAt(i) =>
                            /\ i \in good
                            /\ \A k \in good : k > m => k >= i
                            /\ result = Pair(IntValue(FirstEye(tk[i])[1]),
                                            IntValue(FirstEye(tk[i])[2]))

(* C10: sample never returns at a sample frame whose number of tokens, the *)
(* tag included, is neither 3 nor 5.                                       *)
C10_WrongArityRejected ==
    op = "sample" =>
        LET tk == FrameTokens
        IN  \A i \in 1..Len(trace) :
                (HasTag(tk[i], ET_SPL) /\ Len(tk[i]) \notin {3, 5}) => ~ReturnedAt(i)

\* what stands after the last line-feed of a byte sequence
Unterminated(bytes) ==
    LET lf == {i \in 1..Len(bytes) : bytes[i] = LF}
    IN  IF lf = {} THEN bytes
        ELSE SubSeq(bytes, (CHOOSE i \in lf : \A j \in lf : j <= i) + 1, Len(bytes))

\* the last read of the last recv returned None
EndOfStream == raw # <<>> /\ raw[Len(raw)] = NoneValue

(* C11: when a read of recv returns None, recv raises the runtime error    *)
(* that carries the characters read since the last line-feed, those of the *)
(* unterminated line and no others; no frame is returned for them, and the *)
(* method that called recv, sample or calibrate, ends with that error.     *)
C11_EndOfStreamRaises ==
    EndOfStream =>
        /\ pc = "idle"
        /\ op \in {"recv", "sample", "calibrate"}
        /\ result = NoResult
        /\ err = TrackerSaidError(Unterminated(DropLast(raw)))
        /\ op = "recv" => Where(IsRecv) = {}

\* sample ends with the error that carries the start of a sample line, after
\* a frame it skipped
C11_Witness ==
    /\ EndOfStream
    /\ op = "sample"
    /\ err = TrackerSaidError(ET_SPL \o <<" ", "9">>)
    /\ Where(IsRecv) # {}

\* from some time on no byte waits in the buffer: every read times out
DeadChannel == <>[](rx = <<>>)

(* C12: on a dead channel, where from some time on every read finds no     *)
(* byte, a method that waits in recv comes to its end with an error.       *)
C12_DeadChannelSurfaces ==
    DeadChannel => [](pc = "recv" => <>(pc = "idle" /\ err # NoError))

(* C13: start_recording(stream=True) writes ET_REC, then the format        *)
(* command ET_FRM "%SX %SY", then ET_STR, and nothing else, and the        *)
(* streaming flag is true afterwards; start_recording(stream=False) writes *)
(* ET_REC only and the flag is false afterwards.                           *)
C13_StartOrder ==
    op = "start_recording" =>
        /\ pc = "idle"
        /\ arg = "True" =>
            /\ trace = << Written("ET_REC\t\n"),
                          Written("ET_FRM \"%SX %SY\"\t\n"),
                          Written("ET_STR\t\n") >>
            /\ streaming = TRUE
        /\ arg = "False" =>
            /\ trace = << Written("ET_REC\t\n") >>
            /\ streaming = FALSE

\* start_recording(stream=True) has run on a session that streamed already
C13_Witness ==
    /\ op = "start_recording"
    /\ arg = "True"
    /\ entry = TRUE
    /\ Len(trace) = 3

\* the methods that change the streaming flag themselves
FlagWriters == {"__init__", "start_recording", "stop_recording"}

\* calibrate has returned, without an error, at the completion frame
CalibrationCompleted ==
    /\ op = "calibrate"
    /\ pc = "idle"
    /\ err = NoError
    /\ \E i \in 1..Len(trace) :
          IsRecv(trace[i]) /\ HasTag(Split(trace[i][2]), ET_FIN)

(* C14: only start_recording and stop_recording change the streaming flag. *)
(* No step of send, recv, sample, log, save_data or clear changes it, and  *)
(* no step of calibrate but the one that takes the completion frame, which *)
(* runs stop_recording: in a call of any of these methods, calibrate after *)
(* its completion frame excepted, the flag is what it was on entry.        *)
C14_FlagOnlyByStartStop ==
    /\ [](op \notin FlagWriters /\ ~CalibrationCompleted => streaming = entry)
    /\ [][ streaming' # streaming =>
              \/ op' \in FlagWriters
              \/ CalibrationCompleted' /\ pc = "recv_ret" /\ streaming' = FALSE ]_vars

\* a calibrate call of a session that streams has ended with the
\* protocol-order error
C14_Witness ==
    /\ op = "calibrate"
    /\ pc = "idle"
    /\ err = CalibrationError
    /\ entry = TRUE
    /\ streaming = TRUE

IsPoll(e) == e[1] = "get_key"

(* C15: in a calibrate call, every frame recv hands back is preceded, with *)
(* nothing in between, by one poll of the keyboard, also after an empty or *)
(* an unknown frame; a poll is followed by the frame of its iteration and  *)
(* never by a second poll; recv is entered only straight after a poll.     *)
(* When the poll finds the escape key the call ends with its error at      *)
(* once: nothing follows the poll, no recv, no display call, no stop       *)
(* command, no beep.                                                       *)
C15_PollBeforeRecv ==
    op = "calibrate" =>
        /\ \A i \in Where(IsRecv) : i > 1 /\ trace[i - 1] = Poll
        /\ \A i \in Where(IsPoll) : i = Len(trace) \/ IsRecv(trace[i + 1])
        /\ pc \in {"recv", "recv_ret"} => trace[Len(trace)] = Poll
        /\ pc = "cal_poll" => trace[Len(trace)] # Poll
        /\ err = EscapeError =>
            /\ pc = "idle"
            /\ trace[Len(trace)] = Poll
            /\ streaming = entry
            /\ ~CalibrationCompleted

\* the escape key is found by the poll that follows an empty frame, itself
\* after another frame
C15_Witness ==
    /\ op = "calibrate"
    /\ err = EscapeError
    /\ Len(trace) >= 5
    /\ IsRecv(trace[Len(trace) - 1])
    /\ Split(trace[Len(trace) - 1][2]) = <<>>
    /\ IsRecv(trace[Len(trace) - 3])

(* C16: whenever a calibrate call has ended, by the completion frame or by *)
(* an error, the streaming flag is false and the stop command ET_STP was   *)
(* written after the commands that set the calibration up.                 *)
C16_CalibrateLeavesStopped ==
    (op = "calibrate" /\ pc = "idle") =>
        /\ streaming = FALSE
        /\ \E i \in 8..Len(trace) : trace[i] = Written("ET_STP\t\n")

\* the indices the definitions among the frames tk give to pts
DefinedIn(tk) ==
    { IntValue(tk[j][2]) - 1 :
        j \in {k \in 1..Len(tk) : HasTag(tk[k], ET_PNT) /\ Len(tk[k]) >= 4
                                     /\ IsIntLiteral(tk[k][2])} }

(* C17: the point table of a calibrate call holds what the frames of that  *)
(* call defined and nothing of the calls before it: a point-change frame   *)
(* for a point that only an earlier call defined, one that returned or one *)
(* that raised, ends the call with the protocol-order error.               *)
C17_TableNotKept ==
    op = "calibrate" =>
        LET tk == FrameTokens
        IN  /\ pc # "idle" => DOMAIN pts = DefinedIn(tk)
            /\ \A i \in 1..Len(trace) :
                    ( /\ IsChange(tk[i])
                      /\ IntValue(tk[i][2]) - 1 \in defined
                      /\ ~DefinedBefore(tk, i) ) =>
                        /\ i = Len(trace)
                        /\ pc = "idle"
                        /\ err = CalibrationError

\* the change to point 3 fails in a call that did not define it, after a
\* call that did
C17_Witness ==
    /\ op = "calibrate"
    /\ pc = "idle"
    /\ err = CalibrationError
    /\ 2 \in defined
    /\ DefinedIn(FrameTokens) = {}
    /\ FrameTokens[Len(trace)] = <<ET_CHG, <<"3">>>>

(* C18: a read that times out is no error and changes nothing: the step,   *)
(* which takes no byte and leaves the empty string in c,                   *)
(* leaves recv in its loop with the same accumulated characters; at        *)
(* every moment of recv the accumulated characters, and the frame returned *)
(* in the end, are those the bytes read give by themselves, wherever       *)
(* reads timed out between them, the middle of a line included.            *)
C18_TimeoutsTransparent ==
    /\ [](pc = "recv" => s = Unterminated(raw))
    /\ [](pc = "recv_ret" =>
            /\ s = Lines(raw)[Len(Lines(raw))]
            /\ ret = DropLast(Lines(raw)[Len(Lines(raw))]))
    /\ [][ (pc = "recv" /\ c' = Timeout /\ rx' = rx) =>
              /\ pc' = "recv"
              /\ UNCHANGED <<s, ret, raw, result, err, trace>> ]_vars

\* recv returns a sample frame after a read timed out in the middle of its
\* line
C18_Witness ==
    /\ pc = "recv_ret"
    /\ waited
    /\ IsWellFormedSample(Split(ret))

(* C19: between the calls the streaming flag is true exactly when ET_STR   *)
(* was written and no ET_EST after it.                                     *)
C19_FlagTracksDevice ==
    pc = "idle" => (streaming <=> devStreaming)

(* C20: sample returns a pair whose two coordinates come from one frame,   *)
(* the one it returns at: it does not return at a sample frame whose x is  *)
(* an integer and whose y is not, and the x of such a frame is in no pair  *)
(* returned later; it returns at the first sample frame whose x and y are  *)
(* both integers.                                                          *)
C20_PairFromOneFrame ==
    op = "sample" =>
        LET tk == FrameTokens
            both == {i \in 1..Len(trace) :
                        /\ HasTag(tk[i], ET_SPL)
                        /\ Len(tk[i]) >= 3
                        /\ IsIntLiteral(FirstEye(tk[i])[1])
                        /\ IsIntLiteral(FirstEye(tk[i])[2])}
        IN  /\ \A i \in 1..Len(trace) :
                (IsRecv(trace[i]) /\ i \notin both) => ~ReturnedAt(i)
            /\ \A i \in both :
                /\ ReturnedAt(i)
                /\ result = Pair(IntValue(FirstEye(tk[i])[1]),
                                IntValue(FirstEye(tk[i])[2]))
            /\ (pc = "idle" /\ err = NoError) => both # {}

\* sample has returned the pair of a frame that came after a frame whose x
\* was an integer and whose y was not
C20_Witness ==
    /\ op = "sample"
    /\ Len(trace) >= 2
    /\ ReturnedAt(Len(trace))
    /\ \E m \in 1..(Len(trace) - 1) :
          /\ HasTag(FrameTokens[m], ET_SPL)
          /\ Len(FrameTokens[m]) = 3
          /\ IsIntLiteral(FrameTokens[m][2])
          /\ ~IsIntLiteral(FrameTokens[m][3])
          /\ IntValue(FrameTokens[m][2]) # result[2]

====
